---- MODULE Spec2Model ----
(***************************************************************************)
(* Model of the pbinfo crate: the label/id extractor, the HTML metadata    *)
(* field extractors (src/src/extract.rs) and the two fetch operations      *)
(* (src/src/lib.rs).                                                       *)
(*                                                                         *)
(* Text is a sequence of characters, each character a one-element string;  *)
(* the non-ASCII letters of the site are written by code point             *)
(* ("U+0103" is a-breve, "U+021B" t-comma, "U+0219" s-comma).  The regex   *)
(* patterns of the source are transcribed item by item and run by a        *)
(* backtracking matcher with the leftmost-first semantics of the regex     *)
(* crate.  The crate keeps no state between calls, so a behaviour is one   *)
(* call: the inputs are drawn in the initial state, the action is the      *)
(* whole call.                                                             *)
(***************************************************************************)
EXTENDS Integers, Sequences, FiniteSets, TLC

VARIABLES
    pc,        \* "ready" before the call, "done" after it
    op,        \* name of the function that was called
    arg,       \* the inputs of the call and what the network will answer
    result,    \* what the call returned (or that it panicked)
    trace      \* the steps the call went through, in order

vars == <<pc, op, arg, result, trace>>

----------------------------------------------------------------------------
(* Bounds of the model *)

\* number of lexical pieces a JSON label is built from
MaxPieces == 4

\* characters of whitespace padding inside the channel span
MaxPad == 1

\* number of <span> values in the memory cell
MaxSpans == 3

\* number of cells in which a table row differs from the base row
MaxDeviations == 1

\* number of candidates in a search result
MaxCands == 2

\* number of </article> closing tags on a problem page
MaxArticles == 2

----------------------------------------------------------------------------
(* Characters and character classes *)

Digit == {"0", "1", "2", "3", "4", "5", "6", "7", "8", "9"}

UpperSeq == <<"A","B","C","D","E","F","G","H","I","J","K","L","M","N",
        "O","P","Q","R","S","T","U","V","W","X","Y","Z">>

LowerSeq == <<"a","b","c","d","e","f","g","h","i","j","k","l","m","n",
        "o","p","q","r","s","t","u","v","w","x","y","z">>

Letter ==
    {UpperSeq[i] : i \in 1..26} \cup {LowerSeq[i] : i \in 1..26}
        \cup {"U+0103", "U+021B", "U+0219"}

\* \w of the regex crate (Unicode word characters)
Word == Letter \cup Digit \cup {"_"}

\* \s of the regex crate, char::is_whitespace of str::trim and split_whitespace
Space == {" ", "\t", "\n", "\r", "\f"}

Punct ==
    {"<", ">", "/", "=", "\"", "'", ":", ";", "(", ")", ".", ",", "-", "#", "+", "|",
     "&", "?", "!", "%"}

\* [\s\S]
AnyChar == Word \cup Space \cup Punct

\* \S
NonSpace == AnyChar \ Space

\* .   (any character but the line feed)
Dot == AnyChar \ {"\n"}

----------------------------------------------------------------------------
(* Results *)

Ok(v) == <<"Ok", v>>

Err(kind, msg) == <<"Err", kind, msg>>

\* the call did not return: an unwrap/expect on None or Err unwound it
Panic(msg) == <<"Panic", msg>>

IsOk(r) == r[1] = "Ok"

IsErr(r) == r[1] = "Err"

IsPanic(r) == r[1] = "Panic"

Some(v) == <<"Some", v>>

None == <<"None">>

Std == <<"Std">>

File(n) == <<"File", n>>

----------------------------------------------------------------------------
(* String functions of the standard library *)

Min(S) == CHOOSE x \in S : \A y \in S : x <= y

Max(S) == CHOOSE x \in S : \A y \in S : x >= y

\* str::trim
Trim(s) ==
    LET keep == {i \in 1..Len(s) : s[i] \notin Space}
    IN  IF keep = {} THEN <<>> ELSE SubSeq(s, Min(keep), Max(keep))

\* str::to_lowercase, on the letters of the model's alphabet
LowerChar(c) ==
    IF \E i \in 1..26 : UpperSeq[i] = c
    THEN LowerSeq[CHOOSE i \in 1..26 : UpperSeq[i] = c]
    ELSE c

to_lowercase(s) == [i \in 1..Len(s) |-> LowerChar(s[i])]

\* str::replace(c, ""): every occurrence of the character is removed
RECURSIVE Remove(_, _)
Remove(s, c) ==
    IF s = <<>> THEN <<>>
    ELSE IF Head(s) = c THEN Remove(Tail(s), c)
    ELSE <<Head(s)>> \o Remove(Tail(s), c)

\* str::split_whitespace, collected: the maximal runs of non-whitespace
RECURSIVE SplitWhitespace(_)
SplitWhitespace(s) ==
    LET starts == {i \in 1..Len(s) : s[i] \notin Space}
    IN  IF starts = {} THEN <<>>
        ELSE LET b == Min(starts)
                 stops == {j \in b..Len(s) : s[j] \in Space}
                 e == IF stops = {} THEN Len(s) ELSE Min(stops) - 1
             IN  <<SubSeq(s, b, e)>> \o SplitWhitespace(SubSeq(s, e + 1, Len(s)))

DigitSeq == <<"0","1","2","3","4","5","6","7","8","9">>

DigitVal(c) == (CHOOSE i \in 1..10 : DigitSeq[i] = c) - 1

RECURSIVE DecimalValue(_)
DecimalValue(ds) ==
    IF ds = <<>> THEN 0
    ELSE 10 * DecimalValue(SubSeq(ds, 1, Len(ds) - 1)) + DigitVal(ds[Len(ds)])

\* usize::MAX = 2^64 - 1, as decimal digits
UsizeMaxDigits == <<"1","8","4","4","6","7","4","4","0","7","3","7","0","9",
        "5","5","1","6","1","5">>

\* ds, without leading zeros, denotes a number above usize::MAX
Overflows(ds) ==
    LET nz == {i \in 1..Len(ds) : ds[i] # "0"}
        sig == IF nz = {} THEN <<>> ELSE SubSeq(ds, Min(nz), Len(ds))
    IN  \/ Len(sig) > Len(UsizeMaxDigits)
        \/ /\ Len(sig) = Len(UsizeMaxDigits)
           /\ \E i \in 1..Len(sig) :
                /\ DigitVal(sig[i]) > DigitVal(UsizeMaxDigits[i])
                /\ \A j \in 1..(i - 1) : sig[j] = UsizeMaxDigits[j]

\* str::parse::<usize>: an optional "+", then one or more decimal digits,
\* no overflow.  Ok(n) or Err(()).
ParseUsize(s) ==
    LET ds == IF s # <<>> /\ Head(s) = "+" THEN Tail(s) ELSE s
    IN  IF ds = <<>> \/ (\E i \in 1..Len(ds) : ds[i] \notin Digit) \/ Overflows(ds)
        THEN <<"Err">>
        ELSE Ok(DecimalValue(ds))

----------------------------------------------------------------------------
(* Regular expressions.  A pattern is a sequence of segments, a segment a  *)
(* sequence of items; the segments only divide the work of the matcher.    *)

\* a literal string
Lit(s) == [t |-> "lit", s |-> s, cls |-> {}, min |-> 0, lazy |-> FALSE, g |-> 0]

\* one character of a class
One(cls) == [t |-> "one", s |-> <<>>, cls |-> cls, min |-> 1, lazy |-> FALSE, g |-> 0]

\* a class repeated, zero or more times (min 0) or one or more (min 1),
\* greedy or lazy
Rep(cls, min, lazy) ==
    [t |-> "rep", s |-> <<>>, cls |-> cls, min |-> min, lazy |-> lazy, g |-> 0]

\* the parentheses of capture group g
Open(g) == [t |-> "open", s |-> <<>>, cls |-> {}, min |-> 0, lazy |-> FALSE, g |-> g]

Close(g) == [t |-> "close", s |-> <<>>, cls |-> {}, min |-> 0, lazy |-> FALSE, g |-> g]

NoMatch == [ok |-> FALSE, from |-> 0, to |-> 0, caps |-> <<>>]

NoCaps == [g \in 1..9 |-> <<0, 0>>]

HasPrefixAt(s, i, lit) ==
    /\ i + Len(lit) - 1 <= Len(s)
    /\ \A j \in 1..Len(lit) : s[i + j - 1] = lit[j]

\* length of the longest run of class characters starting at position i
RunLen(s, i, cls) ==
    LET stops == {j \in i..Len(s) : s[j] \notin cls}
    IN  IF stops = {} THEN Len(s) + 1 - i ELSE Min(stops) - i

\* the literal that must follow item k of a segment directly (group
\* parentheses consume nothing), or <<>> when it is not a literal
RECURSIVE NextLit(_, _)
NextLit(seg, k) ==
    IF k > Len(seg) THEN <<>>
    ELSE IF seg[k].t = "lit" THEN seg[k].s
    ELSE IF seg[k].t \in {"open", "close"} THEN NextLit(seg, k + 1)
    ELSE <<>>

\* Every way items k.. of a segment match at position i of s, in the
\* priority order of a backtracking matcher: a repetition tries its counts
\* fewest first when lazy, most first when greedy (counts after which the
\* following literal is not there cannot match and are left out).  Each
\* way is the position it ends at and the capture groups it sets.
RECURSIVE AllMatches(_, _, _, _, _), AltsOver(_, _, _, _, _, _)
AllMatches(seg, k, s, i, caps) ==
    IF k > Len(seg) THEN <<[to |-> i, caps |-> caps]>>
    ELSE LET it == seg[k] IN
         CASE it.t = "lit" ->
                IF HasPrefixAt(s, i, it.s)
                THEN AllMatches(seg, k + 1, s, i + Len(it.s), caps)
                ELSE <<>>
           [] it.t = "one" ->
                IF i <= Len(s) /\ s[i] \in it.cls
                THEN AllMatches(seg, k + 1, s, i + 1, caps)
                ELSE <<>>
           [] it.t = "open" ->
                AllMatches(seg, k + 1, s, i, [caps EXCEPT ![it.g] = <<i, i>>])
           [] it.t = "close" ->
                AllMatches(seg, k + 1, s, i, [caps EXCEPT ![it.g] = <<@[1], i>>])
           [] it.t = "rep" ->
                LET run == RunLen(s, i, it.cls)
                    lit == NextLit(seg, k + 1)
                IN  AltsOver(seg, k, s, i, caps,
                             {n \in it.min..run : HasPrefixAt(s, i + n, lit)})

AltsOver(seg, k, s, i, caps, counts) ==
    IF counts = {} THEN <<>>
    ELSE LET n == IF seg[k].lazy THEN Min(counts) ELSE Max(counts)
         IN  AllMatches(seg, k + 1, s, i + n, caps)
                \o AltsOver(seg, k, s, i, caps, counts \ {n})

\* The first way, in priority order, the segments of re match: alts are
\* the ways the segments before k have matched so far; they are tried in
\* order from the j-th on, each continued with the segments k.. .
RECURSIVE MatchFrom(_, _, _, _, _)
MatchFrom(re, k, s, alts, j) ==
    IF j > Len(alts) THEN NoMatch
    ELSE LET or_next(m) == IF m.ok THEN m ELSE MatchFrom(re, k, s, alts, j + 1)
         IN  or_next(IF k > Len(re)
                     THEN [ok |-> TRUE, from |-> 0, to |-> alts[j].to, caps |-> alts[j].caps]
                     ELSE MatchFrom(re, k + 1, s,
                                    AllMatches(re[k], 1, s, alts[j].to, alts[j].caps), 1))

\* the first way re matches at position i of s
MatchAt(re, s, i) == MatchFrom(re, 1, s, <<[to |-> i, caps |-> NoCaps]>>, 1)

\* Regex::captures on s[from..]: the match with the leftmost start
RECURSIVE FindIn(_, _, _)
FindIn(re, s, starts) ==
    IF starts = {} THEN NoMatch
    ELSE LET or_later(i, m) ==
                 IF m.ok THEN [m EXCEPT !.from = i] ELSE FindIn(re, s, starts \ {i})
             at(i) == or_later(i, MatchAt(re, s, i))
         IN  at(Min(starts))

FindFrom(re, s, from) ==
    FindIn(re, s, {i \in from..(Len(s) + 1) : HasPrefixAt(s, i, NextLit(re[1], 1))})

Captures(re, s) == FindFrom(re, s, 1)

\* the text of capture group g of a match m
Group(s, m, g) == SubSeq(s, m.caps[g][1], m.caps[g][2] - 1)

\* Regex::captures_iter(..).collect(): the successive non-overlapping
\* matches, as the sequence of their group-1 texts
RECURSIVE CapturesIter(_, _, _)
CapturesIter(re, s, from) ==
    LET and_rest(m) ==
            IF ~m.ok THEN <<>>
            ELSE <<Group(s, m, 1)>>
                    \o CapturesIter(re, s, IF m.to = m.from THEN m.to + 1 ELSE m.to)
    IN  and_rest(FindFrom(re, s, from))
----------------------------------------------------------------------------
(* extract_id_from_json *)

JSONLabelError ==
    Err("JSONError",
        "The JSON 'label' attribute should be of the form 'Problema #{id}: <strong>{name}</strong>'")

Problema == <<"P","r","o","b","l","e","m","a">>

\* faulty variant: the id token keeps its ':' (the second replace is missing)
extract_id_from_json_keeps_colon(string) ==
    LET words == SplitWhitespace(string)
    IN  IF Len(words) = 0 THEN JSONLabelError
        ELSE IF words[1] # Problema THEN JSONLabelError
        ELSE IF Len(words) < 2 THEN JSONLabelError
        ELSE LET id_string == Trim(Remove(words[2], "#"))
                 parsed == ParseUsize(id_string)
             IN  IF IsOk(parsed) THEN Ok(parsed[2]) ELSE JSONLabelError

extract_id_from_json(string) ==
    LET words == SplitWhitespace(string)
    IN  IF Len(words) = 0 THEN JSONLabelError
        ELSE IF words[1] # Problema THEN JSONLabelError
        ELSE IF Len(words) < 2 THEN JSONLabelError
        ELSE LET id_string == Trim(Remove(Remove(words[2], "#"), ":"))
                 parsed == ParseUsize(id_string)
             IN  IF IsOk(parsed) THEN Ok(parsed[2]) ELSE JSONLabelError

----------------------------------------------------------------------------
(* The field extractors of extract.rs *)

\* [\w\.U+0103]
SourceChar == Word \cup {".", "U+0103"}

\* <span style="background: url\(.*?>\s*([\w\.a]+) / ([\w\.a]+)\s*</span>
io_regex ==
    << << Lit(<<"<","s","p","a","n"," ","s","t","y","l","e","=","\"","b",
        "a","c","k","g","r","o","u","n","d",":"," ","u","r","l",
        "(">>), Rep(Dot, 0, TRUE), Lit(<<">">>),
       Rep(Space, 0, FALSE),
       Open(1), Rep(SourceChar, 1, FALSE), Close(1),
       Lit(<<" ","/"," ">>),
       Open(2), Rep(SourceChar, 1, FALSE), Close(2),
       Rep(Space, 0, FALSE), Lit(<<"<","/","s","p","a","n",">">>) >> >>

tastatura == <<"t","a","s","t","a","t","u","r","U+0103">>

ecran == <<"e","c","r","a","n">>

\* faulty variant: the input side is compared with the output sentinel
extract_input_source_ecran(string) ==
    LET m == Captures(io_regex, string)
    IN  IF ~m.ok
        THEN Err("RegexError", "Failed to locate the input source in the HTML")
        ELSE LET input_text == Trim(Group(string, m, 1))
             IN  IF input_text = ecran THEN Ok(Std) ELSE Ok(File(input_text))

extract_input_source(string) ==
    LET m == Captures(io_regex, string)
    IN  IF ~m.ok
        THEN Err("RegexError", "Failed to locate the input source in the HTML")
        ELSE LET input_text == Trim(Group(string, m, 1))
             IN  IF input_text = tastatura THEN Ok(Std) ELSE Ok(File(input_text))

extract_output_source(string) ==
    LET m == Captures(io_regex, string)
    IN  IF ~m.ok
        THEN Err("RegexError", "Failed to locate the output source in the HTML")
        ELSE LET output_text == Trim(Group(string, m, 2))
             IN  IF output_text = ecran THEN Ok(Std) ELSE Ok(File(output_text))

\* <td[ \S]*?>([\s\S]*?)</td>  with capture group g
TdCell(g) ==
    << Lit(<<"<","t","d">>), Rep({" "} \cup NonSpace, 0, TRUE), Lit(<<">">>),
       Open(g), Rep(AnyChar, 0, TRUE), Close(g), Lit(<<"<","/","t","d",">">>) >>

\* n cells, each after the first preceded by \s*?
TdRow(n) == [g \in 1..n |-> IF g = 1 THEN TdCell(1) ELSE <<Rep(Space, 0, TRUE)>> \o TdCell(g)]

\* const_reg of extract.rs: eight cells
const_reg == TdRow(8)

extract_grade(string) ==
    LET m == Captures(const_reg, string)
    IN  IF ~m.ok
        THEN Err("RegexError", "Failed to locate the grade in the HTML")
        ELSE LET grade == ParseUsize(Trim(Group(string, m, 2)))
             IN  IF IsOk(grade) THEN Ok(grade[2])
                 ELSE Err("RegexError", "Could not convert the grade into usize")

Dash == <<"-">>

extract_time_limit(string) ==
    LET m == Captures(const_reg, string)
    IN  IF ~m.ok
        THEN Err("RegexError", "Failed to locate the time limit in the HTML")
        ELSE LET time == Trim(Group(string, m, 4))
             IN  IF time = Dash THEN Ok(None) ELSE Ok(Some(time))

\* >([\w -]*)<
memory_regex ==
    << << Lit(<<">">>), Open(1), Rep(Word \cup {" ", "-"}, 0, FALSE), Close(1), Lit(<<"<">>) >> >>

extract_memory_limit(string) ==
    LET m == Captures(const_reg, string)
    IN  IF ~m.ok
        THEN Err("RegexError", "Failed to locate the memory limit in the HTML")
        ELSE LET memory_caps == CapturesIter(memory_regex, Group(string, m, 5), 1)
             IN  IF Len(memory_caps) = 2
                 THEN Ok(Some(Trim(memory_caps[1]) \o <<" ","/"," ">> \o Trim(memory_caps[2])))
                 ELSE IF Len(memory_caps) = 1
                 THEN Ok(Some(Trim(memory_caps[1]) \o <<" ","/"," ","-">>))
                 ELSE Ok(None)

extract_source(string) ==
    LET m == Captures(const_reg, string)
    IN  IF ~m.ok
        THEN Err("RegexError", "Failed to locate the source in the HTML")
        ELSE LET source == Trim(Group(string, m, 6))
             IN  IF source = Dash THEN Ok(None) ELSE Ok(Some(source))

extract_author(string) ==
    LET m == Captures(const_reg, string)
    IN  IF ~m.ok
        THEN Err("RegexError", "Failed to locate the author in the HTML")
        ELSE LET author == Trim(Group(string, m, 7))
             IN  IF author = Dash THEN Ok(None) ELSE Ok(Some(author))

extract_difficulty(string) ==
    LET m == Captures(const_reg, string)
    IN  IF ~m.ok
        THEN Err("RegexError", "Failed to locate the difficulty in the HTML")
        ELSE LET difficulty == Trim(Group(string, m, 8))
             IN  IF difficulty = Dash THEN Ok(None) ELSE Ok(Some(difficulty))

----------------------------------------------------------------------------
(* fetch_problem_by_id and fetch_problem_by_name of lib.rs.  A response    *)
(* of the site is a record: connected (the request got a response at      *)
(* all), status and text.  An operation yields its result and the trace of *)
(* the steps it took.                                                      *)

\* const_reg of lib.rs: nine cells
const_reg_lib == TdRow(9)

\* extract_grade as lib.rs defines it, over the nine-cell pattern
extract_grade_lib(string) ==
    LET m == Captures(const_reg_lib, string)
    IN  IF ~m.ok
        THEN Err("RegexError", "Failed to locate the grade in the HTML")
        ELSE LET grade == ParseUsize(Trim(Group(string, m, 2)))
             IN  IF IsOk(grade) THEN Ok(grade[2])
                 ELSE Err("RegexError", "Could not convert the grade into usize")

\* <title>Problema ([\w]+) \| www.pbinfo.ro</title>   (the dots are not escaped)
name_regex ==
    << << Lit(<<"<","t","i","t","l","e",">","P","r","o","b","l","e","m",
        "a"," ">>), Open(1), Rep(Word, 1, FALSE), Close(1),
          Lit(<<" ","|"," ","w","w","w">>), One(Dot), Lit(<<"p","b","i","n","f","o">>), One(Dot), Lit(<<"r","o","<","/","t","i","t","l","e",">">>) >> >>

\* (<h1>Cerinta</h1>[\s\S]*)</article>   (with t-comma)
text_regex ==
    << << Open(1), Lit(<<"<","h","1",">","C","e","r","i","n","U+021B","a","<","/","h",
        "1",">">>), Rep(AnyChar, 0, FALSE), Close(1),
          Lit(<<"<","/","a","r","t","i","c","l","e",">">>) >> >>

\* <table class="table table-bordered">([\s\S]*?)</table>
metadata_regex ==
    << << Lit(<<"<","t","a","b","l","e"," ","c","l","a","s","s","=","\"",
        "t","a","b","l","e"," ","t","a","b","l","e","-","b","o",
        "r","d","e","r","e","d","\"",">">>), Open(1), Rep(AnyChar, 0, TRUE),
          Close(1), Lit(<<"<","/","t","a","b","l","e",">">>) >> >>

\* the arm of status 200: locate the three fragments, run the extractors
parse_page(id, text) ==
    LET steps == <<"name_regex", "text_regex", "metadata_regex", "extract_input_source",
                   "extract_input_source", "extract_grade">>
        problem(name_caps, text_caps, input_source, output_source, grade) ==
            IF ~IsOk(input_source)
            THEN [result |-> input_source, trace |-> SubSeq(steps, 1, 4)]
            ELSE IF ~IsOk(output_source)
            THEN [result |-> output_source, trace |-> SubSeq(steps, 1, 5)]
            ELSE IF ~IsOk(grade)
            THEN [result |-> grade, trace |-> steps]
            ELSE [result |->
                    Ok([id |-> id,
                        name |-> to_lowercase(Group(text, name_caps, 1)),
                        text |-> Group(text, text_caps, 1),
                        input_source |-> input_source[2],
                        output_source |-> output_source[2],
                        grade |-> grade[2],
                        time_limit |-> None,
                        memory_limit |-> None,
                        author |-> None,
                        source |-> None,
                        difficulty |-> None]),
                  trace |-> steps]
        extracted(name_caps, text_caps, metadata) ==
            problem(name_caps, text_caps, extract_input_source(metadata),
                    extract_input_source(metadata), extract_grade_lib(metadata))
        located(name_caps, text_caps, metadata_caps) ==
            IF ~name_caps.ok
            THEN [result |-> Panic("called Option::unwrap() on a None value"),
                  trace |-> SubSeq(steps, 1, 1)]
            ELSE IF ~text_caps.ok
            THEN [result |-> Err("RegexError",
                                 "Failed to locate the problem text in the HTML"),
                  trace |-> SubSeq(steps, 1, 2)]
            ELSE IF ~metadata_caps.ok
            THEN [result |-> Err("RegexError",
                                 "Failed to locate the problem metadata in the HTML"),
                  trace |-> SubSeq(steps, 1, 3)]
            ELSE extracted(name_caps, text_caps, Group(text, metadata_caps, 1))
    IN  located(Captures(name_regex, text), Captures(text_regex, text),
                Captures(metadata_regex, text))

\* the steps taken so far, then a call and what it yields
After(steps, call) == [result |-> call.result, trace |-> steps \o call.trace]

NetworkErrorText == "Encountered an error when trying to fetch the problem. HTTP status code "

GetPageExpect == "Encountered an error while making a request to pbinfo.ro"

\* faulty variant: status 404 is not told apart from the other failures
fetch_problem_by_id_no_404(id, page) ==
    IF ~page.connected
    THEN [result |-> Panic(GetPageExpect), trace |-> <<"get_page">>]
    ELSE IF page.status = 200
    THEN After(<<"get_page">>, parse_page(id, page.text))
    ELSE [result |-> Err("NetworkError", <<NetworkErrorText, page.status>>),
          trace |-> <<"get_page">>]

\* faulty variant: a request that did not bring the page is made once more
fetch_problem_by_id_retry(id, page) ==
    IF ~page.connected
    THEN [result |-> Panic(GetPageExpect), trace |-> <<"get_page">>]
    ELSE IF page.status = 200
    THEN After(<<"get_page">>, parse_page(id, page.text))
    ELSE IF page.status = 404
    THEN [result |-> Err("UnknownId", id), trace |-> <<"get_page", "get_page">>]
    ELSE [result |-> Err("NetworkError", <<NetworkErrorText, page.status>>),
          trace |-> <<"get_page", "get_page">>]

fetch_problem_by_id(id, page) ==
    IF ~page.connected
    THEN [result |-> Panic(GetPageExpect), trace |-> <<"get_page">>]
    ELSE IF page.status = 200
    THEN After(<<"get_page">>, parse_page(id, page.text))
    ELSE IF page.status = 404
    THEN [result |-> Err("UnknownId", id), trace |-> <<"get_page">>]
    ELSE [result |-> Err("NetworkError", <<NetworkErrorText, page.status>>),
          trace |-> <<"get_page">>]

\* faulty variant: the scan goes on after a match and the last match wins
RECURSIVE search_loop_last_match(_, _, _, _, _)
search_loop_last_match(search_json, i, name, suggested_problems, page) ==
    LET later == {j \in (i + 1)..Len(search_json) :
                    /\ search_json[j].value # None
                    /\ to_lowercase(search_json[j].value[2]) = name}
    IN
    IF i > Len(search_json)
    THEN [result |-> Err("UnknownName", <<name, suggested_problems>>), trace |-> <<>>]
    ELSE IF search_json[i].value = None
    THEN [result |-> Err("JSONError", "JSON should contain the 'value' attribute"),
          trace |-> <<>>]
    ELSE IF to_lowercase(search_json[i].value[2]) = name /\ later = {}
    THEN IF search_json[i].label = None
         THEN [result |-> Err("JSONError", "JSON should contain the 'label' attribute"),
               trace |-> <<>>]
         ELSE LET fetch(id) ==
                      IF ~IsOk(id)
                      THEN [result |-> id, trace |-> <<"extract_id_from_json">>]
                      ELSE After(<<"extract_id_from_json">>,
                                 fetch_problem_by_id(id[2], page))
              IN  fetch(extract_id_from_json(search_json[i].label[2]))
    ELSE search_loop_last_match(search_json, i + 1, name,
                                Append(suggested_problems, search_json[i].value[2]), page)

\* faulty variant: the suggestions are stored lower-cased, as they were compared
RECURSIVE search_loop_lowercased(_, _, _, _, _)
search_loop_lowercased(search_json, i, name, suggested_problems, page) ==
    IF i > Len(search_json)
    THEN [result |-> Err("UnknownName", <<name, suggested_problems>>), trace |-> <<>>]
    ELSE IF search_json[i].value = None
    THEN [result |-> Err("JSONError", "JSON should contain the 'value' attribute"),
          trace |-> <<>>]
    ELSE IF to_lowercase(search_json[i].value[2]) = name
    THEN IF search_json[i].label = None
         THEN [result |-> Err("JSONError", "JSON should contain the 'label' attribute"),
               trace |-> <<>>]
         ELSE LET fetch(id) ==
                      IF ~IsOk(id)
                      THEN [result |-> id, trace |-> <<"extract_id_from_json">>]
                      ELSE After(<<"extract_id_from_json">>,
                                 fetch_problem_by_id(id[2], page))
              IN  fetch(extract_id_from_json(search_json[i].label[2]))
    ELSE search_loop_lowercased(search_json, i + 1, name,
                                Append(suggested_problems,
                                       to_lowercase(search_json[i].value[2])), page)

\* the loop over the candidates, from candidate i on; a candidate is a map
\* with the optional keys value and label
RECURSIVE search_loop(_, _, _, _, _)
search_loop(search_json, i, name, suggested_problems, page) ==
    IF i > Len(search_json)
    THEN [result |-> Err("UnknownName", <<name, suggested_problems>>), trace |-> <<>>]
    ELSE IF search_json[i].value = None
    THEN [result |-> Err("JSONError", "JSON should contain the 'value' attribute"),
          trace |-> <<>>]
    ELSE IF to_lowercase(search_json[i].value[2]) = name
    THEN IF search_json[i].label = None
         THEN [result |-> Err("JSONError", "JSON should contain the 'label' attribute"),
               trace |-> <<>>]
         ELSE LET fetch(id) ==
                      IF ~IsOk(id)
                      THEN [result |-> id, trace |-> <<"extract_id_from_json">>]
                      ELSE After(<<"extract_id_from_json">>,
                                 fetch_problem_by_id(id[2], page))
              IN  fetch(extract_id_from_json(search_json[i].label[2]))
    ELSE search_loop(search_json, i + 1, name,
                     Append(suggested_problems, search_json[i].value[2]), page)

\* search is the response of the search endpoint: connected, json (whether
\* the body decodes to a list of string maps) and the list
fetch_problem_by_name(name, search, page) ==
    IF ~search.connected
    THEN [result |-> Panic(GetPageExpect), trace |-> <<"get_page">>]
    ELSE IF ~search.json
    THEN [result |-> Err("JSONError", "Could not parse JSON response"),
          trace |-> <<"get_page">>]
    ELSE After(<<"get_page">>, search_loop(search.cands, 1, to_lowercase(name), <<>>, page))

----------------------------------------------------------------------------
(* Labels: every concatenation of at most MaxPieces lexical pieces *)

LabelPieces ==
    {Problema, <<"P","r","o","e","m","a">>, <<" ">>, <<"#">>, <<":">>, <<"1">>, <<"6","9">>, <<"+">>}

RECURSIVE LabelsOf(_)
LabelsOf(n) ==
    IF n = 0 THEN {<<>>}
    ELSE LET shorter == LabelsOf(n - 1)
         IN  shorter \cup {l \o p : l \in shorter, p \in LabelPieces}

Labels == LabelsOf(MaxPieces)

----------------------------------------------------------------------------
(* Metadata fragments, built as the site's table and the test fixtures *)

\* n characters of whitespace
Pad(n) == SubSeq(<<" ", "\t", "\n", " ", "\t", "\n">>, 1, n)

Pads == {Pad(n) : n \in 0..MaxPad}

numere8in == <<"n","u","m","e","r","e","8",".","i","n">>

numere8out == <<"n","u","m","e","r","e","8",".","o","u","t">>

Sides == {tastatura, ecran, numere8in, numere8out}

SpanKinds == {"background", "plain", "none"}

Separators == {<<" ","/"," ">>, <<"/">>}

\* the cell of the input/output channel: a span (with a background image,
\* or without one, or no span) around lead, x, sep, y, trail
IoCell(io) ==
    LET inner == io.lead \o io.x \o io.sep \o io.y \o io.trail
    IN  CASE io.span = "background" ->
                <<"<","s","p","a","n"," ","s","t","y","l","e","=","\"","b",
        "a","c","k","g","r","o","u","n","d",":"," ","u","r","l",
        "(","'","/","i","m","g","/","3","2","-","f","i","s","i",
        "e","r",".","p","n","g","'",")"," ","n","o","-","r","e",
        "p","e","a","t"," ","3","p","x"," ","c","e","n","t","e",
        "r",";","\"",">">>
                    \o inner \o <<"<","/","s","p","a","n",">">>
          [] io.span = "plain" -> <<"<","s","p","a","n"," ","t","i","t","l","e","=","\"","I",
        "n","t","r","a","r","e","/","i","e","U+0219","i","r","e","\"",
        ">">> \o inner \o <<"<","/","s","p","a","n",">">>
          [] io.span = "none" -> inner

IoCells ==
    [span : SpanKinds, lead : Pads, x : Sides, sep : Separators, y : Sides, trail : Pads]

\* the channel cell of the base row
BaseIo ==
    [span |-> "background", lead |-> Pad(1), x |-> numere8in, sep |-> <<" ","/"," ">>,
     y |-> numere8out, trail |-> Pad(1)]

\* the placeholder as the site's table delivers it
DivDash == <<"<","d","i","v"," ","c","l","a","s","s","=","\"","c","e",
        "n","t","e","r","\"",">","-","<","/","d","i","v",">">>

\* the memory cell with k spans, the 2nd padded inside
MemorySnippets == << <<"6","4"," ","M","B">>, <<" ","3","2"," ","M","B"," ">>, <<"8"," ","M","B">>, <<"1","6"," ","M","B">>, <<"1"," ","M","B">> >>

RECURSIVE MemorySpans(_)
MemorySpans(k) ==
    IF k = 0 THEN <<>>
    ELSE (IF k = 1 THEN <<>> ELSE MemorySpans(k - 1) \o <<" ","/"," ">>)
            \o <<"<","s","p","a","n"," ","t","i","t","l","e","=","\"","M",
        "e","m","o","r","i","e","\"",">">> \o MemorySnippets[k] \o <<"<","/","s","p","a","n",">">>

\* the contents a cell can have: mem is "spans" (k of them), "dash" or "div"
Grades == {<<"1","1">>, <<"9">>, <<"0">>, <<"x">>}

Times == {<<"0",".","5"," ","s","e","c","u","n","d","e">>, Dash, DivDash}

Memories == {[form |-> "spans", k |-> k] : k \in 0..MaxSpans}
                \cup {[form |-> "dash", k |-> 0], [form |-> "div", k |-> 0]}

SourceTexts == {<<"O","N","I"," ","2","0","1","6",","," ","c","l","a","s",
        "e","l","e"," ","X","I","-","X","I","I">>, Dash, DivDash}

AuthorTexts == {<<"D","e","n","i","s","-","G","a","b","r","i","e","l"," ",
        "M","i","t","U+0103">>, Dash, DivDash}

Difficulties == {<<"c","o","n","c","u","r","s">>, <<"u","U+0219","o","a","r","U+0103">>, <<"i","m","p","o","s","i","b","i","l">>, Dash, DivDash}

CellCounts == {7, 8, 9}

MemoryCell(mem) ==
    CASE mem.form = "spans" -> MemorySpans(mem.k)
      [] mem.form = "dash" -> Dash
      [] mem.form = "div" -> DivDash

\* a <td> as in the fixtures: attribute, indentation, content, indentation
Td(attr, content) ==
    <<"<","t","d">> \o attr \o <<">","\n","\t">> \o content \o <<"\t","\t","<","/","t","d",">","\n">>

Center == <<" ","c","l","a","s","s","=","\"","c","e","n","t","e","r",
        "\"">>

RowCells(r) ==
    << Td(<<>>, <<"<","a"," ","h","r","e","f","=","\"","/","p","r","o","f",
        "i","l","/","s","i","l","v","i","u","\"",">","s","i","l",
        "v","i","u","<","/","a",">">>),
       Td(Center, r.grade),
       Td(<<>>, IoCell(r.io)),
       Td(<<>>, r.time),
       Td(<<>>, MemoryCell(r.mem)),
       Td(<<>>, r.source),
       Td(<<>>, r.author),
       Td(Center, r.difficulty),
       Td(<<>>, <<"<","d","i","v"," ","c","l","a","s","s","=","\"","c","e",
        "n","t","e","r","\"",">"," ","-"," ","<","/","d","i","v",
        ">">>) >>

RECURSIVE Concat(_, _)
Concat(ss, n) == IF n = 0 THEN <<>> ELSE Concat(ss, n - 1) \o ss[n]

\* the header row and the data row, cut after its first r.cells cells
RowText(r) ==
    <<"<","t","r",">","\n","<","t","h",">","C","l","a","s","a",
        "<","/","t","h",">","\n","<","/","t","r",">","\n","<","t",
        "r",">","\n">> \o Concat(RowCells(r), r.cells) \o <<"<","/","t","r",">","\n">>

BaseRow ==
    [grade |-> <<"1","1">>, io |-> BaseIo, time |-> <<"0",".","5"," ","s","e","c","u","n","d","e">>,
     mem |-> [form |-> "spans", k |-> 2], source |-> <<"O","N","I"," ","2","0","1","6",","," ","c","l","a","s",
        "e","l","e"," ","X","I","-","X","I","I">>,
     author |-> <<"D","e","n","i","s","-","G","a","b","r","i","e","l"," ",
        "M","i","t","U+0103">>, difficulty |-> <<"c","o","n","c","u","r","s">>, cells |-> 9]

RowFields == {"grade", "time", "mem", "source", "author", "difficulty", "cells"}

\* the rows that differ from the base row in at most MaxDeviations cells
Rows ==
    {r \in [grade : Grades, io : {BaseIo}, time : Times, mem : Memories,
            source : SourceTexts, author : AuthorTexts, difficulty : Difficulties,
            cells : CellCounts] :
        Cardinality({f \in RowFields : r[f] # BaseRow[f]}) <= MaxDeviations}

\* a fragment is a bare channel cell (as in text_extract_io) or a table row
Fragments ==
    {[kind |-> "io", io |-> io, row |-> BaseRow, text |-> Td(<<>>, IoCell(io))] :
        io \in IoCells}
    \cup {[kind |-> "row", io |-> r.io, row |-> r, text |-> RowText(r)] : r \in Rows}

----------------------------------------------------------------------------
(* What the site answers: problem pages and search results *)

StatusCodes == {200, 403, 404, 500}

\* the rows the problem pages carry
FetchIos ==
    {BaseIo,
     [BaseIo EXCEPT !.x = tastatura, !.y = ecran],
     [BaseIo EXCEPT !.x = tastatura],
     [BaseIo EXCEPT !.span = "none"]}

FetchRows ==
    {[BaseRow EXCEPT !.io = io] : io \in FetchIos}
    \cup {[BaseRow EXCEPT !.grade = <<"x">>], [BaseRow EXCEPT !.cells = 8],
          [BaseRow EXCEPT !.time = Dash], [BaseRow EXCEPT !.source = DivDash],
          [BaseRow EXCEPT !.mem = [form |-> "spans", k |-> 1]]}

\* closers closing tags of the article, each followed by more of the page
RECURSIVE Closers(_)
Closers(n) == IF n = 0 THEN <<>> ELSE Closers(n - 1) \o <<"<","/","a","r","t","i","c","l","e",">","\n","<","h","r",
        ">">>

PageText(p) ==
    <<"<","h","t","m","l",">","<","h","e","a","d",">">>
        \o (IF p.title THEN <<"<","t","i","t","l","e",">","P","r","o","b","l","e","m",
        "a"," ","A","r","b","o","r","e","1"," ","|"," ","w","w",
        "w",".","p","b","i","n","f","o",".","r","o","<","/","t",
        "i","t","l","e",">">>
            ELSE <<"<","t","i","t","l","e",">","w","w","w",".","p","b","i",
        "n","f","o",".","r","o","<","/","t","i","t","l","e",">">>)
        \o <<"<","/","h","e","a","d",">","\n","<","b","o","d","y",">">>
        \o (IF p.table
            THEN <<"<","t","a","b","l","e"," ","c","l","a","s","s","=","\"",
        "t","a","b","l","e"," ","t","a","b","l","e","-","b","o",
        "r","d","e","r","e","d","\"",">","\n">> \o RowText(p.row) \o <<"<","/","t","a","b","l","e",">","\n">>
            ELSE <<>>)
        \o <<"<","a","r","t","i","c","l","e",">">>
        \o (IF p.heading THEN <<"<","h","1",">","C","e","r","i","n","U+021B","a","<","/","h",
        "1",">">> ELSE <<"<","h","1",">","E","n","u","n","U+021B","<","/","h","1",">">>)
        \o <<"\n","<","p",">","S","e"," ","d","a","u"," ","n"," ","n",
        "u","m","e","r","e",".","<","/","p",">","\n">>
        \o Closers(p.closers)
        \o <<"<","/","b","o","d","y",">","<","/","h","t","m","l",">">>

PageShapes ==
    {p \in [title : BOOLEAN, heading : BOOLEAN, closers : 0..MaxArticles, table : BOOLEAN,
            row : FetchRows] : p.table \/ p.row = BaseRow}

BasePage == [title |-> TRUE, heading |-> TRUE, closers |-> 1, table |-> TRUE, row |-> BaseRow]

NoResponse == [connected |-> FALSE, status |-> 0, shape |-> BasePage, text |-> <<>>]

Response(status, p) == [connected |-> TRUE, status |-> status, shape |-> p, text |-> PageText(p)]

PageResponses ==
    {NoResponse} \cup {Response(200, p) : p \in PageShapes}
        \cup {Response(st, p) : st \in StatusCodes \ {200},
                                p \in {BasePage, [BasePage EXCEPT !.title = FALSE]}}

\* the page answers tried together with every search result
SmallPageResponses ==
    {NoResponse, Response(200, BasePage), Response(200, [BasePage EXCEPT !.title = FALSE]),
     Response(404, BasePage), Response(500, BasePage)}

Label1691 == <<"P","r","o","b","l","e","m","a"," ","#","1","6","9","1",
        ":"," ","<","s","t","r","o","n","g",">","A","r","b","o",
        "r","e","1","<","/","s","t","r","o","n","g",">">>

Label7 == <<"P","r","o","b","l","e","m","a"," ","#","7",":"," ","<",
        "s","t","r","o","n","g",">","A","r","b","o","r","e","1",
        "<","/","s","t","r","o","n","g",">">>

BadLabel == <<"P","r","o","e","m","a"," ","#","7",":"," ","<","s","t",
        "r","o","n","g",">","A","r","b","o","r","e","1","<","/",
        "s","t","r","o","n","g",">">>

\* candidates of a search for arbore1: the value matches (with any label),
\* does not match, or is missing
Candidates ==
    {[value |-> Some(<<"A","r","b","o","r","e","1">>), label |-> l] :
        l \in {Some(Label1691), Some(Label7), Some(BadLabel), None}}
    \cup {[value |-> Some(<<"A","r","b","o","r","e">>), label |-> Some(Label7)],
          [value |-> Some(<<"A","r","b","o","r","e","1","2">>), label |-> Some(Label1691)],
          [value |-> None, label |-> Some(Label7)]}

RECURSIVE CandidateLists(_)
CandidateLists(n) ==
    IF n = 0 THEN {<<>>}
    ELSE LET shorter == CandidateLists(n - 1)
         IN  shorter \cup {Append(l, c) : l \in shorter, c \in Candidates}

Searches ==
    {[connected |-> FALSE, json |-> FALSE, cands |-> <<>>],
     [connected |-> TRUE, json |-> FALSE, cands |-> <<>>]}
    \cup {[connected |-> TRUE, json |-> TRUE, cands |-> l] : l \in CandidateLists(MaxCands)}

BaseSearch ==
    [connected |-> TRUE, json |-> TRUE,
     cands |-> <<[value |-> Some(<<"A","r","b","o","r","e","1">>), label |-> Some(Label1691)]>>]

Names == {<<"A","R","B","O","R","E","1">>, <<"s","u","m","a">>}

Ids == {7, 1691}

\* every page answer with the base search, every search with a few pages
FetchArgs ==
    {[id |-> i, name |-> <<"A","R","B","O","R","E","1">>, search |-> BaseSearch, page |-> p] :
        i \in Ids, p \in PageResponses}
    \cup {[id |-> 7, name |-> n, search |-> q, page |-> p] :
            n \in Names, q \in Searches, p \in SmallPageResponses}

----------------------------------------------------------------------------
(* A call of a pure function: it runs to its result in one step *)

Call(name, value) ==
    /\ pc = "ready"
    /\ pc' = "done"
    /\ op' = name
    /\ result' = value
    /\ UNCHANGED <<arg, trace>>

----------------------------------------------------------------------------
(* The label specification: one call of extract_id_from_json *)

InitId ==
    /\ pc = "ready"
    /\ op = "none"
    /\ arg \in {[label |-> l] : l \in Labels}
    /\ result = <<"none">>
    /\ trace = <<>>

ExtractId == Call("extract_id_from_json", extract_id_from_json(arg.label))

NextId == ExtractId

SpecId == InitId /\ [][NextId]_vars

----------------------------------------------------------------------------
(* The extractor specification: one call of one extractor on a fragment *)

InitExtract ==
    /\ pc = "ready"
    /\ op = "none"
    /\ arg \in Fragments
    /\ result = <<"none">>
    /\ trace = <<>>

ExtractInputSource == Call("extract_input_source", extract_input_source(arg.text))

ExtractOutputSource == Call("extract_output_source", extract_output_source(arg.text))

ExtractGrade == Call("extract_grade", extract_grade(arg.text))

ExtractTimeLimit == Call("extract_time_limit", extract_time_limit(arg.text))

ExtractMemoryLimit == Call("extract_memory_limit", extract_memory_limit(arg.text))

ExtractSource == Call("extract_source", extract_source(arg.text))

ExtractAuthor == Call("extract_author", extract_author(arg.text))

ExtractDifficulty == Call("extract_difficulty", extract_difficulty(arg.text))

NextExtract ==
    \/ ExtractInputSource
    \/ ExtractOutputSource
    \/ ExtractGrade
    \/ ExtractTimeLimit
    \/ ExtractMemoryLimit
    \/ ExtractSource
    \/ ExtractAuthor
    \/ ExtractDifficulty

SpecExtract == InitExtract /\ [][NextExtract]_vars

----------------------------------------------------------------------------
(* The fetch specification: one call of a fetch operation against the site *)

InitFetch ==
    /\ pc = "ready"
    /\ op = "none"
    /\ arg \in FetchArgs
    /\ result = <<"none">>
    /\ trace = <<>>

FetchProblemById ==
    /\ pc = "ready"
    /\ \E call \in {fetch_problem_by_id(arg.id, arg.page)} :
        /\ pc' = "done"
        /\ op' = "fetch_problem_by_id"
        /\ result' = call.result
        /\ trace' = call.trace
        /\ UNCHANGED arg

FetchProblemByName ==
    /\ pc = "ready"
    /\ \E call \in {fetch_problem_by_name(arg.name, arg.search, arg.page)} :
        /\ pc' = "done"
        /\ op' = "fetch_problem_by_name"
        /\ result' = call.result
        /\ trace' = call.trace
        /\ UNCHANGED arg

NextFetch == FetchProblemById \/ FetchProblemByName

SpecFetch == InitFetch /\ [][NextFetch]_vars

----------------------------------------------------------------------------
(* C1 *)

ById == pc = "done" /\ op = "fetch_problem_by_id"

ByName == pc = "done" /\ op = "fetch_problem_by_name"

\* C1: when the problem page is answered with status 200 fetch_problem_by_id
\* goes on to parse the page; with 404 it returns UnknownId of the requested
\* id; with any other status a NetworkError naming that status; in the last
\* two cases nothing of the page is parsed or extracted.
C1_StatusMapping ==
    (ById /\ arg.page.connected) =>
        /\ arg.page.status = 200 =>
                /\ Len(trace) >= 2 /\ trace[2] = "name_regex"
                /\ IsErr(result) => result[2] \notin {"UnknownId", "NetworkError"}
        /\ arg.page.status = 404 =>
                result = Err("UnknownId", arg.id) /\ trace = <<"get_page">>
        /\ arg.page.status \notin {200, 404} =>
                /\ result = Err("NetworkError", <<NetworkErrorText, arg.page.status>>)
                /\ trace = <<"get_page">>

\* a 404 for id 1691 came back as UnknownId(1691)
C1_Witness ==
    /\ ById /\ arg.page.connected /\ arg.page.status = 404 /\ arg.id = 1691
    /\ result = Err("UnknownId", 1691)

----------------------------------------------------------------------------
(* C2 *)

\* the search answered with a list in which every candidate has a value
WellFormedSearch ==
    /\ arg.search.connected /\ arg.search.json
    /\ \A j \in 1..Len(arg.search.cands) : arg.search.cands[j].value # None

\* the positions of the candidates whose lower-cased value is the
\* lower-cased name
Matches ==
    {j \in 1..Len(arg.search.cands) :
        to_lowercase(arg.search.cands[j].value[2]) = to_lowercase(arg.name)}

\* C2: when some candidate's lower-cased value equals the lower-cased name,
\* fetch_problem_by_name takes the first such candidate, extracts the id
\* from its label and returns what fetch_problem_by_id returns for that id
\* (or the label's format error); later matches are never used.
C2_FirstMatchWins ==
    (ByName /\ WellFormedSearch /\ Matches # {}
        /\ arg.search.cands[Min(Matches)].label # None) =>
        LET id == extract_id_from_json(arg.search.cands[Min(Matches)].label[2])
        IN  IF IsOk(id)
            THEN result = fetch_problem_by_id(id[2], arg.page).result
            ELSE result = JSONLabelError

\* two candidates match, with the ids 7 and 1691 in this order, and the
\* problem returned is number 7
C2_Witness ==
    /\ ByName /\ WellFormedSearch
    /\ Matches = {1, 2}
    /\ arg.search.cands[1].label = Some(Label7)
    /\ arg.search.cands[2].label = Some(Label1691)
    /\ IsOk(result) /\ result[2].id = 7

----------------------------------------------------------------------------
(* C3 *)

\* C3: when no candidate's lower-cased value equals the lower-cased name,
\* fetch_problem_by_name returns UnknownName with the name it queried (the
\* lower-cased name) and the values of all candidates in their order.
C3_SuggestionsInOrder ==
    (ByName /\ WellFormedSearch /\ Matches = {}) =>
        result = Err("UnknownName",
                     <<to_lowercase(arg.name),
                       [j \in 1..Len(arg.search.cands) |-> arg.search.cands[j].value[2]]>>)

\* two candidates that do not match were returned as suggestions, in order
C3_Witness ==
    /\ ByName /\ WellFormedSearch /\ Matches = {}
    /\ Len(arg.search.cands) = 2
    /\ arg.search.cands[1].value # arg.search.cands[2].value
    /\ result = Err("UnknownName", <<<<"a","r","b","o","r","e","1">>, <<<<"A","r","b","o","r","e","1","2">>, <<"A","r","b","o","r","e">>>>>>)

----------------------------------------------------------------------------
(* C4 *)

\* C4: on a successful fetch_problem_by_id the output_source comes from the
\* right side of the `X / Y` text: Std when Y is "ecran", File(Y) otherwise.
C4_OutputFromRightSide ==
    (ById /\ IsOk(result)) =>
        result[2].output_source =
            (IF arg.page.shape.row.io.y = ecran THEN Std ELSE File(arg.page.shape.row.io.y))

----------------------------------------------------------------------------
(* C5 *)

\* the metadata fragment of the page that was fetched
PageMetadata ==
    Group(arg.page.text, Captures(metadata_regex, arg.page.text), 1)

\* C5: on a successful fetch_problem_by_id all eight extractors ran on the
\* metadata fragment, in order, and every field of the record is what its
\* extractor returns on that fragment.
C5_AllEightExtractors ==
    (ById /\ IsOk(result)) =>
        /\ SubSeq(trace, 5, Len(trace)) =
                <<"extract_input_source", "extract_output_source", "extract_grade",
                  "extract_time_limit", "extract_memory_limit", "extract_source",
                  "extract_author", "extract_difficulty">>
        /\ Ok(result[2].time_limit) = extract_time_limit(PageMetadata)
        /\ Ok(result[2].memory_limit) = extract_memory_limit(PageMetadata)
        /\ Ok(result[2].source) = extract_source(PageMetadata)
        /\ Ok(result[2].author) = extract_author(PageMetadata)
        /\ Ok(result[2].difficulty) = extract_difficulty(PageMetadata)

----------------------------------------------------------------------------
(* C6 *)

\* C6: whatever response the site gives, fetch_problem_by_id returns a
\* Problem record or an error value.
C6_AlwaysReturns ==
    (ById /\ arg.page.connected) => (IsOk(result) \/ IsErr(result))

----------------------------------------------------------------------------
(* C7 *)

\* The ids a label of the shape `Problema #<id>: ...` denotes: leading
\* whitespace, the word Problema, whitespace, then a maximal run of
\* non-whitespace that, without its '#' and ':' characters, is a decimal
\* numeral (which Rust's parse lets start with one '+').  Empty when the
\* label has not that shape.
LabelIds(l) ==
    LET shapes ==
            {abc \in (1..(Len(l) + 1)) \X (1..(Len(l) + 1)) \X (1..Len(l)) :
                LET a == abc[1]
                    b == abc[2]
                    c == abc[3]
                IN  /\ \A i \in 1..(a - 1) : l[i] \in Space
                    /\ HasPrefixAt(l, a, Problema)
                    /\ a + Len(Problema) < b
                    /\ \A i \in (a + Len(Problema))..(b - 1) : l[i] \in Space
                    /\ b <= c
                    /\ \A i \in b..c : l[i] \notin Space
                    /\ c = Len(l) \/ l[c + 1] \in Space}
        Numeral(abc) ==
            LET tok == SelectSeq(SubSeq(l, abc[2], abc[3]), LAMBDA ch : ch \notin {"#", ":"})
            IN  IF tok # <<>> /\ tok[1] = "+" THEN Tail(tok) ELSE tok
    IN  {DecimalValue(Numeral(abc)) :
            abc \in {x \in shapes :
                        /\ Numeral(x) # <<>>
                        /\ \A i \in 1..Len(Numeral(x)) : Numeral(x)[i] \in Digit}}

\* C7: extract_id_from_json returns Ok(n) exactly for the labels of the
\* shape `Problema #<n>: ...` (first token "Problema", second token a
\* numeral once '#' and ':' are stripped), and for every other label the
\* one JSONError value with the fixed format message.
C7_IdExtraction ==
    (pc = "done" /\ op = "extract_id_from_json") =>
        IF LabelIds(arg.label) = {}
        THEN result = JSONLabelError
        ELSE \E n \in LabelIds(arg.label) : result = Ok(n) /\ LabelIds(arg.label) = {n}

\* a label with '#' and ':' around the id was parsed to its id
C7_Witness ==
    /\ pc = "done" /\ op = "extract_id_from_json"
    /\ arg.label = <<"P","r","o","b","l","e","m","a"," ","#","6","9">>
    /\ result = Ok(69)

----------------------------------------------------------------------------
(* C8 *)

\* the fragment holds a background-image span whose text is `X / Y`
HasChannelSpan == arg.io.span = "background" /\ arg.io.sep = <<" ","/"," ">>

\* C8: on a fragment with a background-image span of text `X / Y`,
\* extract_input_source returns Std when X is "tastatura" (with a-breve)
\* and File(X) otherwise, extract_output_source returns Std when Y is
\* "ecran" and File(Y) otherwise; without such a span both return a
\* RegexError.
C8_ChannelSides ==
    /\ (pc = "done" /\ op = "extract_input_source") =>
            IF HasChannelSpan
            THEN result = Ok(IF arg.io.x = tastatura THEN Std ELSE File(arg.io.x))
            ELSE result = Err("RegexError", "Failed to locate the input source in the HTML")
    /\ (pc = "done" /\ op = "extract_output_source") =>
            IF HasChannelSpan
            THEN result = Ok(IF arg.io.y = ecran THEN Std ELSE File(arg.io.y))
            ELSE result = Err("RegexError", "Failed to locate the output source in the HTML")

\* the output sentinel on the input side, padded inside the span, was
\* returned as a file name
C8_Witness ==
    /\ pc = "done" /\ op = "extract_input_source"
    /\ HasChannelSpan
    /\ arg.io.x = ecran /\ arg.io.lead # <<>> /\ arg.io.trail # <<>>
    /\ result = Ok(File(ecran))

----------------------------------------------------------------------------
(* C9 *)

\* the row pattern of extract.rs matches the fragment
RowMatches == arg.kind = "row" /\ arg.row.cells >= 8

\* the cell an extractor reads
CellOf(name) ==
    CASE name = "extract_time_limit" -> arg.row.time
      [] name = "extract_source" -> arg.row.source
      [] name = "extract_author" -> arg.row.author
      [] name = "extract_difficulty" -> arg.row.difficulty

\* C9: extract_source, extract_author, extract_time_limit and
\* extract_difficulty return None when their cell shows the placeholder,
\* bare or wrapped in <div class="center">, and Some(trimmed cell text) for
\* a cell with real text.
C9_PlaceholderIsNone ==
    (pc = "done" /\ RowMatches
        /\ op \in {"extract_time_limit", "extract_source", "extract_author",
                   "extract_difficulty"}) =>
        IF CellOf(op) \in {Dash, DivDash}
        THEN result = Ok(None)
        ELSE result = Ok(Some(CellOf(op)))

----------------------------------------------------------------------------
(* C10 *)

\* the `>text<` snippets the memory cell of the fragment holds
Snippets ==
    CASE arg.row.mem.form = "spans" -> SubSeq(MemorySnippets, 1, arg.row.mem.k)
      [] arg.row.mem.form = "dash" -> <<>>
      [] arg.row.mem.form = "div" -> <<Dash>>

\* C10: extract_memory_limit gives Some("A / B") for two snippets A, B (each
\* trimmed), Some("A / -") for one snippet A, None for none and for three
\* or more; a present result never has the placeholder in its first slot.
C10_MemorySlots ==
    (pc = "done" /\ RowMatches /\ op = "extract_memory_limit") =>
        /\ Len(Snippets) = 2 =>
                result = Ok(Some(Trim(Snippets[1]) \o <<" ","/"," ">> \o Trim(Snippets[2])))
        /\ Len(Snippets) = 1 => result = Ok(Some(Trim(Snippets[1]) \o <<" ","/"," ","-">>))
        /\ Len(Snippets) \notin {1, 2} => result = Ok(None)
        /\ (IsOk(result) /\ result[2] # None) => ~HasPrefixAt(result[2][2], 1, <<"-"," ","/"," ">>)


----------------------------------------------------------------------------
(* C11 *)

\* the four lower-case tokens the site shows for a difficulty
DifficultyVocabulary == {<<"u","U+0219","o","a","r","U+0103">>, <<"m","e","d","i","e">>, <<"d","i","f","i","c","i","l","U+0103">>, <<"c","o","n","c","u","r","s">>}

\* C11: on a fragment the row pattern matches, extract_difficulty returns
\* None when the 8th cell trims to "-", the difficulty when the trimmed
\* cell is one of the four vocabulary tokens, and an error for every other
\* token; no successful value lies outside the vocabulary.
C11_DifficultyVocabulary ==
    (pc = "done" /\ RowMatches /\ op = "extract_difficulty") =>
        /\ Trim(arg.row.difficulty) = Dash => result = Ok(None)
        /\ Trim(arg.row.difficulty) \in DifficultyVocabulary =>
                result = Ok(Some(Trim(arg.row.difficulty)))
        /\ Trim(arg.row.difficulty) \notin DifficultyVocabulary \cup {Dash} => IsErr(result)
        /\ (IsOk(result) /\ result[2] # None) => result[2][2] \in DifficultyVocabulary

----------------------------------------------------------------------------
(* C12 *)

\* the text is a decimal numeral of a positive integer
IsPositiveInteger(s) ==
    /\ s # <<>>
    /\ \A i \in 1..Len(s) : s[i] \in Digit
    /\ \E i \in 1..Len(s) : s[i] # "0"

\* C12: extract_grade succeeds only with a positive integer, the one the
\* trimmed 2nd cell reads; when the trimmed 2nd cell is not a positive
\* integer, or the row pattern does not match, it returns an error.
C12_GradePositive ==
    (pc = "done" /\ op = "extract_grade") =>
        /\ IsOk(result) => result[2] >= 1
        /\ IF RowMatches /\ IsPositiveInteger(Trim(arg.row.grade))
           THEN result = Ok(DecimalValue(Trim(arg.row.grade)))
           ELSE IsErr(result)


----------------------------------------------------------------------------
(* C13 *)

Heading == <<"<","h","1",">","C","e","r","i","n","U+021B","a","<","/","h",
        "1",">">>

ArticleEnd == <<"<","/","a","r","t","i","c","l","e",">">>

\* the text of the page's article from the heading to its first closing tag
BodyText == Heading \o <<"\n","<","p",">","S","e"," ","d","a","u"," ","n"," ","n",
        "u","m","e","r","e",".","<","/","p",">","\n">>

Contains(s, lit) == \E i \in 1..Len(s) : HasPrefixAt(s, i, lit)

\* C13: on a page with the heading followed by one or more closing article
\* tags the problem text starts at the heading and ends right before the
\* first closing tag after it, so it holds no closing tag; without the
\* heading or without a closing tag the fetch fails with a RegexError.
C13_BodyUpToFirstCloser ==
    (ById /\ arg.page.connected /\ arg.page.status = 200 /\ arg.page.shape.title) =>
        IF arg.page.shape.heading /\ arg.page.shape.closers >= 1
        THEN IsOk(result) =>
                /\ result[2].text = BodyText
                /\ ~Contains(result[2].text, ArticleEnd)
        ELSE result = Err("RegexError", "Failed to locate the problem text in the HTML")

----------------------------------------------------------------------------
(* C14 *)

\* the number of blocking network requests the call issued
Requests == Cardinality({i \in 1..Len(trace) : trace[i] = "get_page"})

\* the positions of the candidates at which the loop can stop: the value
\* is missing or matches the name
Stops ==
    {j \in 1..Len(arg.search.cands) :
        \/ arg.search.cands[j].value = None
        \/ to_lowercase(arg.search.cands[j].value[2]) = to_lowercase(arg.name)}

\* the search leads to a problem page: the response decodes, the first
\* candidate the loop stops at matches the name and its label yields an id
LeadsToPage ==
    /\ arg.search.connected /\ arg.search.json
    /\ Stops # {}
    /\ arg.search.cands[Min(Stops)].value # None
    /\ arg.search.cands[Min(Stops)].label # None
    /\ IsOk(extract_id_from_json(arg.search.cands[Min(Stops)].label[2]))

\* C14 as stated: every call of fetch_problem_by_id and of
\* fetch_problem_by_name issues zero or two network requests, on every
\* outcome.
C14_ZeroOrTwoRequests == (ById \/ ByName) => Requests \in {0, 2}

\* C14 as amended: every call of fetch_problem_by_id issues exactly one
\* request (the problem page); every call of fetch_problem_by_name issues
\* one request (the search) or two (the search, then the problem page), two
\* exactly when the search leads to a problem page; on every outcome.
C14_RequestCount ==
    /\ ById => Requests = 1
    /\ ByName => Requests = IF LeadsToPage THEN 2 ELSE 1

\* a fetch by name that succeeded after the search and the page request
C14_Witness == ByName /\ LeadsToPage /\ IsOk(result) /\ Requests = 2
====
